---- MODULE Spec2Model ----
(***************************************************************************)
(* Model of sim/physics/motors.cc: the torque limits, the electrical power *)
(* and the controller loss of a non-salient permanent-magnet motor.        *)
(*                                                                         *)
(* Numbers.  A double is modelled by an exact rational <<n, d>> in lowest  *)
(* terms with d > 0.  Two facts of double arithmetic that the code's       *)
(* comparisons depend on are kept:                                         *)
(*   - Tiny stands for a positive double below every other magnitude of    *)
(*     the model (DBL_EPSILON, and cos(0.5 * M_PI) = 6.1e-17, which is     *)
(*     positive because M_PI is rounded down); a product with Tiny stays   *)
(*     Tiny in magnitude and a sum absorbs it;                             *)
(*   - `-3 / 2` is a division of ints, see CIntDiv.                        *)
(* sqrt is exact on ratios of perfect squares and the nearest rational of  *)
(* 32-bit terms elsewhere; the inputs of the specifications are drawn so   *)
(* that every radicand a result depends on is of the first kind (Exact...).*)
(* Two factors of the code are irrational, 1.0 / sqrt(3.0) at line 49 and  *)
(* 1 / M_PI at line 202.  Each multiplies one parameter only, and          *)
(* MotorParams carries that parameter as its rational multiple of the      *)
(* irrational:                                                             *)
(*   modulation_limit_over_sqrt3     = modulation_limit / sqrt(3)          *)
(*   specific_switching_loss_over_pi = specific_switching_loss / M_PI      *)
(* so that modulation_limit = sqrt(3)/2 = 0.8660254037844386 is the field  *)
(* 1/2 and the model's results are the code's up to rounding.              *)
(* Angles are modelled by their cosine and sine, see Acos and Atan.        *)
(***************************************************************************)
EXTENDS Integers, Sequences, FiniteSets, TLC

----------------------------------------------------------------------------
(* Rational arithmetic standing for double arithmetic.                     *)

AbsInt(i) == IF i < 0 THEN -i ELSE i

SignInt(i) == IF i < 0 THEN -1 ELSE IF i > 0 THEN 1 ELSE 0

RECURSIVE GCD(_, _)
GCD(a, b) == IF b = 0 THEN a ELSE GCD(b, a % b)

\* The rational n/d in lowest terms, d # 0.
R(n, d) ==
    LET g == GCD(AbsInt(n), AbsInt(d))
        s == IF d < 0 THEN -1 ELSE 1
    IN  <<s * (n \div g), s * (d \div g)>>

Zero == <<0, 1>>
One == <<1, 1>>
Num(i) == <<i, 1>>

\* A positive double smaller than every other magnitude of the model.
Tiny == <<1, 2147483647>>

IsTiny(a) == a[2] = Tiny[2]

Neg(a) == <<-a[1], a[2]>>

AbsR(a) == <<AbsInt(a[1]), a[2]>>

\* a * b, cancelling across before multiplying.  A product with zero is
\* zero, whatever the other (finite) factor.  A product with Tiny underflows
\* to Tiny's magnitude with the product's sign.
Mul(a, b) ==
    IF a[1] = 0 THEN Zero
    ELSE IF b[1] = 0 THEN Zero
    ELSE IF IsTiny(a) \/ IsTiny(b)
    THEN <<SignInt(a[1]) * SignInt(b[1]), Tiny[2]>>
    ELSE LET g1 == GCD(AbsInt(a[1]), b[2])
             g2 == GCD(AbsInt(b[1]), a[2])
         IN  <<(a[1] \div g1) * (b[1] \div g2), (a[2] \div g2) * (b[2] \div g1)>>

\* a + b; a nonzero term absorbs Tiny, as rounding does.
Add(a, b) ==
    IF IsTiny(a) THEN (IF b[1] = 0 THEN a ELSE b)
    ELSE IF IsTiny(b) THEN (IF a[1] = 0 THEN b ELSE a)
    ELSE LET g == GCD(a[2], b[2])
         IN  R(a[1] * (b[2] \div g) + b[1] * (a[2] \div g), (a[2] \div g) * b[2])

Sub(a, b) == Add(a, Neg(b))

\* a / b for b # 0 (the specifications draw only parameters for which no
\* divisor of the code is zero).
Div(a, b) == Mul(a, IF b[1] < 0 THEN <<-b[2], -b[1]>> ELSE <<b[2], b[1]>>)

\* a < b.  Tiny compares as a positive (negative) value next to zero.
Less(a, b) ==
    IF IsTiny(a) /\ IsTiny(b) THEN a[1] < b[1]
    ELSE IF IsTiny(a) THEN (IF a[1] > 0 THEN b[1] > 0 ELSE b[1] >= 0)
    ELSE IF IsTiny(b) THEN (IF b[1] > 0 THEN a[1] <= 0 ELSE a[1] < 0)
    ELSE a[1] * b[2] < b[1] * a[2]

Leq(a, b) == ~Less(b, a)

Fmax(a, b) == IF Less(a, b) THEN b ELSE a

\* floor(sqrt(k)) for an integer k >= 0, by bisection on lo..hi.
RECURSIVE ISqrtIn(_, _, _)
ISqrtIn(k, lo, hi) ==
    IF lo >= hi THEN lo
    ELSE LET mid == (lo + hi + 1) \div 2
         IN  IF mid * mid <= k THEN ISqrtIn(k, mid, hi) ELSE ISqrtIn(k, lo, mid - 1)

ISqrt(k) == ISqrtIn(k, 0, IF k < 46340 THEN k ELSE 46340)

IsSquareInt(k) == k >= 0 /\ ISqrt(k) * ISqrt(k) = k

\* The rational is the square of a rational: sqrt of it is exact.
IsSquare(a) == IsSquareInt(a[1]) /\ IsSquareInt(a[2])

\* The last convergent h1/k1 of the continued fraction of sqrt(n), n not a
\* perfect square, whose successor would pass 2^31 - 1 in the numerator or
\* kmax in the denominator: it is within 1 / (k1 * k1) of sqrt(n).  a0 is
\* the integer part of sqrt(n); m, d, a are the current complete quotient
\* (m + sqrt(n)) / d and its integer part; h0/k0 is the convergent before.
RECURSIVE SqrtConvergent(_, _, _, _, _, _, _, _, _, _)
SqrtConvergent(n, a0, m, d, a, h1, h0, k1, k0, kmax) ==
    LET m2 == d * a - m
        d2 == (n - m2 * m2) \div d
        a2 == (a0 + m2) \div d2
    IN  IF a2 > (2147483647 - h0) \div h1 \/ a2 > (kmax - k0) \div k1
        THEN <<h1, k1>>
        ELSE SqrtConvergent(n, a0, m2, d2, a2, a2 * h1 + h0, h1, a2 * k1 + k0, k1, kmax)

\* sqrt(n) for an integer n that is not a perfect square, as the rational
\* nearest to it with denominator at most kmax.
SqrtOfInt(n, kmax) == SqrtConvergent(n, ISqrt(n), 0, 1, ISqrt(n), ISqrt(n), 1, 1, 0, kmax)

\* sqrt(a), a >= 0 in lowest terms: exact when a is a ratio of perfect
\* squares.  Otherwise sqrt(a) is irrational and the result is a rational
\* as near to it as the 32-bit numerators allow (closer than a double is
\* when the terms are small): sqrt(p) / s for a = p / s^2, and else
\* sqrt(p * q) / q for a = p / q.
Sqrt(a) ==
    IF IsSquare(a) THEN <<ISqrt(a[1]), ISqrt(a[2])>>
    ELSE IF IsSquareInt(a[2])
    THEN LET s == ISqrt(a[2])
             c == SqrtOfInt(a[1], 2147483647 \div s)
         IN  R(c[1], c[2] * s)
    ELSE LET c == SqrtOfInt(a[1] * a[2], 2147483647 \div a[2])
         IN  R(c[1], c[2] * a[2])

\* common/c_math/util.h Saturate: x limited to [lo, hi].
Saturate(x, lo, hi) == IF Less(x, lo) THEN lo ELSE IF Less(hi, x) THEN hi ELSE x

\* The quotient of two C ints: truncated towards zero.
CIntDiv(a, b) == SignInt(a) * SignInt(b) * (AbsInt(a) \div AbsInt(b))

----------------------------------------------------------------------------
(* Angles.  An angle is carried as [cos, sin].  The code takes acos of a   *)
(* value saturated to [-1, 1] (theta_delta in [0, pi]), atan (theta_ref in *)
(* (-pi/2, pi/2)), the sum and difference of the two, and limits them by   *)
(* -+0.5 * M_PI; on these ranges the comparisons of angles are comparisons *)
(* of cosines, stated at FminNegHalfPi and FmaxHalfPi.                     *)

Acos(x) == [cos |-> x, sin |-> Sqrt(Sub(One, Mul(x, x)))]

Atan(x) ==
    LET h == Sqrt(Add(One, Mul(x, x)))
    IN  [cos |-> Div(One, h), sin |-> Div(x, h)]

AngleZero == [cos |-> One, sin |-> Zero]

AngleAdd(a, b) ==
    [cos |-> Sub(Mul(a.cos, b.cos), Mul(a.sin, b.sin)),
     sin |-> Add(Mul(a.sin, b.cos), Mul(a.cos, b.sin))]

AngleSub(a, b) ==
    [cos |-> Add(Mul(a.cos, b.cos), Mul(a.sin, b.sin)),
     sin |-> Sub(Mul(a.sin, b.cos), Mul(a.cos, b.sin))]

\* The cosine of the real pi/2.
CosHalfPiOfReals == Zero

\* cos(0.5 * M_PI) = cos(-0.5 * M_PI) = 6.123e-17 > 0 in doubles.
CosHalfPi == Tiny

HalfPi == [cos |-> CosHalfPi, sin |-> One]

NegHalfPi == [cos |-> CosHalfPi, sin |-> Neg(One)]

\* fmin(ref - delta, -0.5 * M_PI).  ref - delta < -pi/2 iff delta > ref + pi/2
\* iff cos(delta) < -sin(ref), cos being decreasing on [0, pi].
FminNegHalfPi(ref, delta) ==
    IF Less(delta.cos, Neg(ref.sin)) THEN AngleSub(ref, delta) ELSE NegHalfPi

\* fmax(ref + delta, 0.5 * M_PI).  ref + delta > pi/2 iff delta > pi/2 - ref
\* iff cos(delta) < sin(ref).
FmaxHalfPi(ref, delta) ==
    IF Less(delta.cos, ref.sin) THEN AngleAdd(ref, delta) ELSE HalfPi

----------------------------------------------------------------------------
(* sim/physics/motors.cc                                                   *)

kSimMotorLimitPhaseCurrent == "kSimMotorLimitPhaseCurrent"
kSimMotorLimitPower == "kSimMotorLimitPower"

\* float.h DBL_EPSILON = 2^-52: below every nonzero magnitude of the model.
DBL_EPSILON == Tiny

\* The function without its clamp: the voltage as passed.
ClampVoltageOmitted(voltage) == voltage

\* `if (voltage < 0.0) voltage = 0.0;`
ClampVoltage(voltage) == IF Less(voltage, Zero) THEN Zero ELSE voltage

\* The condition of DCHECK_GE(DBL_EPSILON, fabs(params.Ld - params.Lq)).
NonSalient(params) == Leq(AbsR(Sub(params.Ld, params.Lq)), DBL_EPSILON)

\* omega_e = rotor_vel * npp
OmegaE(rotor_vel, params) == Mul(rotor_vel, Num(params.num_pole_pairs))

\* vdq_max = voltage * (1.0 / sqrt(3.0)) * params.modulation_limit, with
\* modulation_limit = modulation_limit_over_sqrt3 * sqrt(3).
VdqMax(voltage, params) == Mul(voltage, params.modulation_limit_over_sqrt3)

\* z2 = Rs * Rs + L * L * omega_e * omega_e
Z2(omega_e, params) ==
    Add(Mul(params.Rs, params.Rs),
        Mul(Mul(Mul(params.Lq, params.Lq), omega_e), omega_e))

\* id_center = -omega_e * omega_e * L * lambda / z2
IdCenter(omega_e, params) ==
    Div(Mul(Mul(Mul(Neg(omega_e), omega_e), params.Lq), params.flux_linkage),
        Z2(omega_e, params))

\* iq_center = -Rs * omega_e * lambda / z2
IqCenter(omega_e, params) ==
    Div(Mul(Mul(Neg(params.Rs), omega_e), params.flux_linkage), Z2(omega_e, params))

\* iq_radius = vdq_max / sqrt(z2)
IqRadius(vdq_max, omega_e, params) == Div(vdq_max, Sqrt(Z2(omega_e, params)))

\* cos_idq, saturated to [-1, 1].
CosIdq(vdq_max, omega_e, params) ==
    LET z2 == Z2(omega_e, params)
        lambda == params.flux_linkage
        i_phase_lim == params.phase_current_cmd_limit
        num == Sub(Sub(Mul(vdq_max, vdq_max), Mul(Mul(z2, i_phase_lim), i_phase_lim)),
                   Mul(Mul(Mul(lambda, lambda), omega_e), omega_e))
        den == Mul(Mul(Mul(Mul(Num(2), Fmax(AbsR(omega_e), One)), lambda), i_phase_lim),
                   Sqrt(z2))
    IN  Saturate(Div(num, den), Neg(One), One)

\* theta_ref = fabs(omega_e) > DBL_EPSILON ? atan(Rs / (omega_e * L)) : 0.0
ThetaRef(omega_e, params) ==
    IF Less(DBL_EPSILON, AbsR(omega_e))
    THEN Atan(Div(params.Rs, Mul(omega_e, params.Lq)))
    ELSE AngleZero

\* 1.5 * npp * lambda * iq
TorqueOfIq(iq, params) ==
    Mul(Mul(Mul(<<3, 2>>, Num(params.num_pole_pairs)), params.flux_linkage), iq)

\* The assignment without its comparison.
TightenLowerUnguarded(bound, iq, tag) == [iq |-> iq, tag |-> tag]

\* `if (bound < iq) { constraint = tag; bound = iq; }`
TightenLower(bound, iq, tag) ==
    IF Less(bound.iq, iq) THEN [iq |-> iq, tag |-> tag] ELSE bound

\* `if (bound > iq) { constraint = tag; bound = iq; }`
TightenUpper(bound, iq, tag) ==
    IF Less(iq, bound.iq) THEN [iq |-> iq, tag |-> tag] ELSE bound

\* The locals of CalcTorqueLimits after the power limit (lower1, upper1) and
\* after the phase current limit (lower2, upper2): a bound is its iq and
\* its constraint.
TorqueLimitSteps(voltage_in, rotor_vel, params) ==
    LET voltage == ClampVoltage(voltage_in)
        i_phase_lim == params.phase_current_cmd_limit
        omega_e == OmegaE(rotor_vel, params)
        vdq_max == VdqMax(voltage, params)
        \* Initialize with the hard quadrature current command limits.
        lower0 == [iq |-> params.iq_cmd_lower_limit, tag |-> kSimMotorLimitPhaseCurrent]
        upper0 == [iq |-> params.iq_cmd_upper_limit, tag |-> kSimMotorLimitPhaseCurrent]
        \* The power limit.
        id_center == IdCenter(omega_e, params)
        iq_center == IqCenter(omega_e, params)
        iq_radius == IqRadius(vdq_max, omega_e, params)
        lower1 == TightenLower(lower0, Sub(iq_center, iq_radius), kSimMotorLimitPower)
        upper1 == TightenUpper(upper0, Add(iq_center, iq_radius), kSimMotorLimitPower)
        \* The phase current limit.
        theta_delta == Acos(CosIdq(vdq_max, omega_e, params))
        theta_ref == ThetaRef(omega_e, params)
        theta_lo == FminNegHalfPi(theta_ref, theta_delta)
        lower2 == IF Less(id_center, Mul(i_phase_lim, theta_lo.cos))
                  THEN TightenLower(lower1, Mul(i_phase_lim, theta_lo.sin),
                                    kSimMotorLimitPhaseCurrent)
                  ELSE lower1
        theta_up == FmaxHalfPi(theta_ref, theta_delta)
        upper2 == IF Less(id_center, Mul(i_phase_lim, theta_up.cos))
                  THEN TightenUpper(upper1, Mul(i_phase_lim, theta_up.sin),
                                    kSimMotorLimitPhaseCurrent)
                  ELSE upper1
    IN  [id_center |-> id_center, iq_center |-> iq_center, iq_radius |-> iq_radius,
         theta_ref |-> theta_ref, theta_lo |-> theta_lo, theta_up |-> theta_up,
         lower1 |-> lower1, upper1 |-> upper1, lower2 |-> lower2, upper2 |-> upper2]

\* limits.lower_limit = 1.5 * npp * lambda * iq_cmd_lower_limit and
\* limits.upper_limit = 1.5 * npp * lambda * iq_cmd_upper_limit
TorqueLimitsOf(lower, upper, params) ==
    [lower_limit |-> TorqueOfIq(lower.iq, params),
     upper_limit |-> TorqueOfIq(upper.iq, params),
     lower_constraint |-> lower.tag,
     upper_constraint |-> upper.tag]

LimitsOfSteps(steps, params) == TorqueLimitsOf(steps.lower2, steps.upper2, params)

CalcTorqueLimits(voltage, rotor_vel, params) ==
    LimitsOfSteps(TorqueLimitSteps(voltage, rotor_vel, params), params)

\* conduction_loss = -3 / 2 * peak_phase_current_sq * params.rds_on, where
\* `-3 / 2` is evaluated on ints before the product.
ConductionLoss(peak_phase_current_sq, params) ==
    Mul(Mul(Num(CIntDiv(-3, 2)), peak_phase_current_sq), params.rds_on)

\* variable_switching_loss_per_cycle = -(3.0 * 2.0 / M_PI * voltage *
\* sqrt(peak_phase_current_sq) * params.specific_switching_loss), with
\* specific_switching_loss = specific_switching_loss_over_pi * M_PI.
VariableSwitchingLossPerCycle(voltage, peak_phase_current_sq, params) ==
    Neg(Mul(Mul(Mul(Mul(Num(3), Num(2)), voltage), Sqrt(peak_phase_current_sq)),
            params.specific_switching_loss_over_pi))

\* The fixed switching loss with the sign of a gain.
FixedSwitchingLossPerCycleAsGain(voltage, params) ==
    Mul(Mul(Num(3),
            Add(Mul(params.fixed_loss_sq_coeff, voltage), params.fixed_loss_lin_coeff)),
        voltage)

\* fixed_switching_loss_per_cycle = -3.0 * (fixed_loss_sq_coeff * voltage +
\* fixed_loss_lin_coeff) * voltage
FixedSwitchingLossPerCycle(voltage, params) ==
    Mul(Mul(Num(-3),
            Add(Mul(params.fixed_loss_sq_coeff, voltage), params.fixed_loss_lin_coeff)),
        voltage)

CalcMotorControllerLoss(voltage, peak_phase_current_sq, params) ==
    Add(ConductionLoss(peak_phase_current_sq, params),
        Mul(params.switching_frequency,
            Add(VariableSwitchingLossPerCycle(voltage, peak_phase_current_sq, params),
                FixedSwitchingLossPerCycle(voltage, params))))

\* iq = torque / (1.5 * npp * lambda)
IqOfTorque(torque, params) ==
    Div(torque, Mul(Mul(<<3, 2>>, Num(params.num_pole_pairs)), params.flux_linkage))

\* The addition without its test of the sign of id.
IdContributionUnguarded(id) == Mul(id, id)

\* `if (id < 0) peak_phase_current_sq = peak_phase_current_sq + id * id;`:
\* what id adds.
IdContribution(id) == IF Less(id, Zero) THEN Mul(id, id) ELSE Zero

\* peak_phase_current_sq of CalcMotorPower, for the clamped voltage.
PeakPhaseCurrentSq(voltage, torque, rotor_vel, params) ==
    LET omega_e == OmegaE(rotor_vel, params)
        vdq_max == VdqMax(voltage, params)
        iq == IqOfTorque(torque, params)
        id_center == IdCenter(omega_e, params)
        iq_center == IqCenter(omega_e, params)
        iq_radius == IqRadius(vdq_max, omega_e, params)
        iq_height == Sub(iq, iq_center)
        id == Add(id_center,
                  Sqrt(Sub(Mul(iq_radius, iq_radius), Mul(iq_height, iq_height))))
    IN  IF Less(iq_radius, AbsR(iq_height))
        THEN Add(Mul(iq, iq), Mul(id_center, id_center))
        ELSE Add(Mul(iq, iq), IdContribution(id))

\* mechanical_power = -torque * rotor_vel
MechanicalPower(torque, rotor_vel) == Mul(Neg(torque), rotor_vel)

\* resistive_loss = -3 / 2 * peak_phase_current_sq * Rs, where `-3 / 2` is
\* evaluated on ints before the product.
ResistiveLoss(peak_phase_current_sq, params) ==
    Mul(Mul(Num(CIntDiv(-3, 2)), peak_phase_current_sq), params.Rs)

\* speed_loss = -(p_w_loss[0] * w * w + p_w_loss[1] * w + p_w_loss[2]) * w
SpeedLoss(rotor_vel, params) ==
    Mul(Neg(Add(Add(Mul(Mul(params.omega_loss_coefficient_cubic, rotor_vel), rotor_vel),
                    Mul(params.omega_loss_coefficient_sq, rotor_vel)),
                params.omega_loss_coefficient_lin)),
        rotor_vel)

\* hysteresis_loss = -0.5 * coefficient * peak_phase_current_sq * w * w
HysteresisLoss(peak_phase_current_sq, rotor_vel, params) ==
    Mul(Mul(Mul(Mul(<<-1, 2>>, params.hysteresis_loss_coefficient),
                peak_phase_current_sq),
            rotor_vel),
        rotor_vel)

CalcMotorPower(voltage_in, torque, rotor_vel, params) ==
    LET voltage == ClampVoltage(voltage_in)
        peak_phase_current_sq == PeakPhaseCurrentSq(voltage, torque, rotor_vel, params)
    IN  Add(Add(Add(Add(MechanicalPower(torque, rotor_vel),
                        ResistiveLoss(peak_phase_current_sq, params)),
                    SpeedLoss(rotor_vel, params)),
                HysteresisLoss(peak_phase_current_sq, rotor_vel, params)),
            CalcMotorControllerLoss(voltage, peak_phase_current_sq, params))

----------------------------------------------------------------------------
(* The inputs.  MotorParams values are drawn from small sets of valid      *)
(* parameters: positive Rs, Lq, flux linkage, pole pairs, phase current    *)
(* limit, and iq_cmd_lower_limit <= iq_cmd_upper_limit.                    *)

MaxPolePairs == 2
MaxVoltage == 26
MaxNegVoltage == 2
MaxLossVoltage == 6
MaxSpeedLog2 == 4
MaxTorque == 2
MaxPeakRoot == 4

\* <<Rs, Lq>>: sqrt(z2) = 5 at omega_e = 4 for the first and at omega_e = 1/4
\* for the second.
Impedances == {<<Num(3), Num(1)>>, <<Num(4), Num(12)>>}
FluxLinkageValues == {Num(1), Num(8)}
PhaseCurrentLimits == {Num(1), <<3, 2>>}
IqCmdLimits == {Num(1), Num(6)}

\* The loss coefficients: none; conduction without switching; all.
LossParams ==
    { [hysteresis_loss_coefficient |-> Zero, omega_loss_coefficient_cubic |-> Zero,
       omega_loss_coefficient_sq |-> Zero, omega_loss_coefficient_lin |-> Zero,
       rds_on |-> Zero, specific_switching_loss_over_pi |-> Zero, fixed_loss_sq_coeff |-> Zero,
       fixed_loss_lin_coeff |-> Zero, switching_frequency |-> Zero],
      [hysteresis_loss_coefficient |-> Zero, omega_loss_coefficient_cubic |-> Zero,
       omega_loss_coefficient_sq |-> Zero, omega_loss_coefficient_lin |-> Zero,
       rds_on |-> Num(2), specific_switching_loss_over_pi |-> One, fixed_loss_sq_coeff |-> One,
       fixed_loss_lin_coeff |-> One, switching_frequency |-> Zero],
      [hysteresis_loss_coefficient |-> One, omega_loss_coefficient_cubic |-> One,
       omega_loss_coefficient_sq |-> <<1, 2>>, omega_loss_coefficient_lin |-> One,
       rds_on |-> Num(2), specific_switching_loss_over_pi |-> One, fixed_loss_sq_coeff |-> <<1, 2>>,
       fixed_loss_lin_coeff |-> One, switching_frequency |-> Num(2)] }

MotorParams ==
    { [modulation_limit_over_sqrt3 |-> <<1, 2>>,
       phase_current_cmd_limit |-> i, iq_cmd_lower_limit |-> Neg(q),
       iq_cmd_upper_limit |-> q, Lq |-> z[2], Ld |-> Add(z[2], s), Rs |-> z[1],
       flux_linkage |-> f, num_pole_pairs |-> n] @@ loss :
        i \in PhaseCurrentLimits, q \in IqCmdLimits, z \in Impedances, s \in {Zero, One},
        f \in FluxLinkageValues, n \in 1..MaxPolePairs, loss \in LossParams }

Voltages == {Num(v) : v \in (0 - MaxNegVoltage)..MaxVoltage}
\* The voltages of the calls of CalcMotorPower and CalcMotorControllerLoss.
LossVoltages == {Num(v) : v \in (0 - MaxNegVoltage)..MaxLossVoltage}
\* 0 and +-2^k / 4 [rad/s]: +-1/4, +-1/2, ..., +-4.
RotorSpeeds == {Zero} \cup {R(s * 2^k, 4) : k \in 0..MaxSpeedLog2, s \in {-1, 1}}

\* The speeds at which sqrt(z2) is exact for the parameters.
ExactRotorSpeeds(p) == {w \in RotorSpeeds : IsSquare(Z2(OmegaE(w, p), p))}
Torques == {Num(t) : t \in (0 - MaxTorque)..MaxTorque}
PeakPhaseCurrents == {R(k * k, 4) : k \in 0..MaxPeakRoot}

\* A comparison of the code whose two sides are equal over the reals, one
\* of them a rounded result: the doubles compare either way.
RoundingDecidesIn(steps, i_phase_lim, params) ==
        \/ params.iq_cmd_lower_limit = Sub(steps.iq_center, steps.iq_radius)
        \/ params.iq_cmd_upper_limit = Add(steps.iq_center, steps.iq_radius)
        \/ /\ steps.lower1.tag = kSimMotorLimitPower
           /\ steps.lower1.iq = Mul(i_phase_lim, steps.theta_lo.sin)
        \/ /\ steps.upper1.tag = kSimMotorLimitPower
           /\ steps.upper1.iq = Mul(i_phase_lim, steps.theta_up.sin)

RoundingDecides(voltage, rotor_vel, params) ==
    RoundingDecidesIn(TorqueLimitSteps(voltage, rotor_vel, params),
                      params.phase_current_cmd_limit, params)

\* The inputs on which the model's sqrt and acos are exact and the code's
\* comparisons are those of the reals, at an exact speed.
ExactTorqueLimits(voltage, rotor_vel, params) ==
    LET omega_e == OmegaE(rotor_vel, params)
        c == CosIdq(VdqMax(ClampVoltage(voltage), params), omega_e, params)
    IN  /\ \/ IsSquare(Sub(One, Mul(c, c)))
           \/ LET ref == ThetaRef(omega_e, params)
              IN  Leq(ref.sin, c) /\ Leq(Neg(ref.sin), c)
        /\ ~RoundingDecides(voltage, rotor_vel, params)

\* sqrt(peak_phase_current_sq) is exact, or the switching losses it enters
\* are multiplied by a switching_frequency of 0.
ExactControllerLoss(peak_phase_current_sq, params) ==
    \/ IsSquare(peak_phase_current_sq)
    \/ params.switching_frequency = Zero

ExactMotorPower(voltage, torque, rotor_vel, params) ==
    LET omega_e == OmegaE(rotor_vel, params)
        iq_radius == IqRadius(VdqMax(ClampVoltage(voltage), params), omega_e, params)
        iq_height == Sub(IqOfTorque(torque, params), IqCenter(omega_e, params))
    IN  /\ \/ Less(iq_radius, AbsR(iq_height))
           \/ IsSquare(Sub(Mul(iq_radius, iq_radius), Mul(iq_height, iq_height)))
        /\ ExactControllerLoss(
               PeakPhaseCurrentSq(ClampVoltage(voltage), torque, rotor_vel, params), params)

----------------------------------------------------------------------------
(* The state: the parameters, whether the build checks DCHECKs (they are   *)
(* compiled out under NDEBUG), and the call in progress with its result.   *)

VARIABLES params, dcheck_enabled, call

vars == <<params, dcheck_enabled, call>>

NoLimits ==
    [lower_limit |-> Zero, upper_limit |-> Zero,
     lower_constraint |-> "none", upper_constraint |-> "none"]

NoCall ==
    [fn |-> "none", status |-> "none", voltage |-> Zero, rotor_vel |-> Zero,
     torque |-> Zero, peak_phase_current_sq |-> Zero, limits |-> NoLimits,
     value |-> Zero]

Init ==
    /\ params \in MotorParams
    /\ dcheck_enabled \in BOOLEAN
    /\ call = NoCall

\* The functions without their DCHECK_GE.
DCheckOmitted == FALSE

\* DCHECK_GE(DBL_EPSILON, fabs(params.Ld - params.Lq)) fails fatally.
DCheckFails == dcheck_enabled /\ ~NonSalient(params)

CallCalcTorqueLimits ==
    /\ call.fn = "none"
    /\ \E rotor_vel \in ExactRotorSpeeds(params), voltage \in Voltages :
        /\ ExactTorqueLimits(voltage, rotor_vel, params)
        /\ call' = [NoCall EXCEPT !.fn = "CalcTorqueLimits",
                       !.voltage = voltage, !.rotor_vel = rotor_vel,
                       !.status = IF DCheckFails THEN "fatal" ELSE "returned",
                       !.limits = IF DCheckFails THEN NoLimits
                                  ELSE CalcTorqueLimits(voltage, rotor_vel, params)]
    /\ UNCHANGED <<params, dcheck_enabled>>

CallCalcMotorPower ==
    /\ call.fn = "none"
    /\ \E rotor_vel \in ExactRotorSpeeds(params), voltage \in LossVoltages, torque \in Torques :
        /\ ExactMotorPower(voltage, torque, rotor_vel, params)
        /\ call' = [NoCall EXCEPT !.fn = "CalcMotorPower",
                       !.voltage = voltage, !.torque = torque, !.rotor_vel = rotor_vel,
                       !.status = IF DCheckFails THEN "fatal" ELSE "returned",
                       !.value = IF DCheckFails THEN Zero
                                 ELSE CalcMotorPower(voltage, torque, rotor_vel, params)]
    /\ UNCHANGED <<params, dcheck_enabled>>

CallCalcMotorControllerLoss ==
    /\ call.fn = "none"
    /\ \E voltage \in LossVoltages, peak_phase_current_sq \in PeakPhaseCurrents :
        /\ ExactControllerLoss(peak_phase_current_sq, params)
        /\ call' = [NoCall EXCEPT !.fn = "CalcMotorControllerLoss",
                       !.voltage = voltage,
                       !.peak_phase_current_sq = peak_phase_current_sq,
                       !.status = "returned",
                       !.value = CalcMotorControllerLoss(voltage, peak_phase_current_sq,
                                                         params)]
    /\ UNCHANGED <<params, dcheck_enabled>>

\* The caller has taken the result; the functions keep no state.
Return ==
    /\ call.status = "returned"
    /\ call' = NoCall
    /\ UNCHANGED <<params, dcheck_enabled>>

Next ==
    \/ CallCalcTorqueLimits
    \/ CallCalcMotorPower
    \/ CallCalcMotorControllerLoss
    \/ Return

Spec == Init /\ [][Next]_vars

----------------------------------------------------------------------------
(* The claims, over the call in progress.                                  *)

Returned(fn) == call.fn = fn /\ call.status = "returned"

\* C1: for non-salient parameters and voltage >= 0, the limits returned by
\* CalcTorqueLimits satisfy lower_limit <= upper_limit.
C1_LowerLimitAtMostUpperLimit ==
    (Returned("CalcTorqueLimits") /\ NonSalient(params) /\ Leq(Zero, call.voltage))
        => Leq(call.limits.lower_limit, call.limits.upper_limit)

\* C2: CalcTorqueLimits and CalcMotorPower called with a negative voltage
\* return what they return for voltage 0, the other arguments unchanged:
\* both limits and both constraints, respectively the power.
C2_NegativeVoltageAsZero ==
    /\ (Returned("CalcTorqueLimits") /\ Less(call.voltage, Zero))
           => call.limits = CalcTorqueLimits(Zero, call.rotor_vel, params)
    /\ (Returned("CalcMotorPower") /\ Less(call.voltage, Zero))
           => call.value = CalcMotorPower(Zero, call.torque, call.rotor_vel, params)

\* A power computed for a negative voltage where the unclamped voltage would
\* enter the switching losses.
C2_Witness ==
    /\ Returned("CalcMotorPower")
    /\ Less(call.voltage, Zero)
    /\ params.switching_frequency # Zero
    /\ call.torque # Zero
    /\ call.value # Zero

\* C3: CalcTorqueLimits is monotonic in voltage: for the speed and the
\* parameters of the call and every voltage v2 at or above the call's, the
\* band for v2 contains the band returned.
C3_MonotonicInVoltage ==
    (Returned("CalcTorqueLimits") /\ NonSalient(params))
        => \A v2 \in Voltages :
               (Leq(call.voltage, v2) /\ ExactTorqueLimits(v2, call.rotor_vel, params))
                   => LET wider == CalcTorqueLimits(v2, call.rotor_vel, params)
                      IN  /\ Leq(wider.lower_limit, call.limits.lower_limit)
                          /\ Leq(call.limits.upper_limit, wider.upper_limit)

Salient == Less(DBL_EPSILON, AbsR(Sub(params.Ld, params.Lq)))

CallOfCheckedFunction == call.fn \in {"CalcTorqueLimits", "CalcMotorPower"}

\* C4, as stated: with salient parameters CalcTorqueLimits and CalcMotorPower
\* halt with a fatal assertion and never return.
C4_SalientNeverReturns ==
    (CallOfCheckedFunction /\ Salient) => call.status = "fatal"

\* C4, amended: in a build that checks DCHECKs, CalcTorqueLimits and
\* CalcMotorPower called with salient parameters halt with a fatal assertion
\* and return no result.
C4_SalientHaltsWhenDChecked ==
    (CallOfCheckedFunction /\ Salient /\ dcheck_enabled)
        => /\ call.status = "fatal"
           /\ call.limits = NoLimits
           /\ call.value = Zero

\* A call of CalcMotorPower with salient parameters halted by the DCHECK.
C4_Witness ==
    /\ call.fn = "CalcMotorPower"
    /\ Salient
    /\ dcheck_enabled
    /\ call.status = "fatal"

\* C5: at rotor speed 0 and voltage >= 0, id_center = 0, theta_ref = 0 and
\* the returned limits lie within -/+ 1.5 * npp * lambda * i_phase_lim.
C5_ZeroSpeedWithinPhaseCurrentLimit ==
    (Returned("CalcTorqueLimits") /\ call.rotor_vel = Zero /\ Leq(Zero, call.voltage))
        => LET steps == TorqueLimitSteps(call.voltage, call.rotor_vel, params)
               i_phase_lim == params.phase_current_cmd_limit
           IN  /\ steps.id_center = Zero
               /\ steps.theta_ref = AngleZero
               /\ Leq(TorqueOfIq(Neg(i_phase_lim), params), call.limits.lower_limit)
               /\ Leq(call.limits.upper_limit, TorqueOfIq(i_phase_lim, params))

\* At rotor speed 0 the hard iq command limits and the voltage circle are
\* both wider than i_phase_lim, and the phase current limit sets both bounds.
C5_Witness ==
    /\ Returned("CalcTorqueLimits")
    /\ call.rotor_vel = Zero
    /\ Less(params.phase_current_cmd_limit, params.iq_cmd_upper_limit)
    /\ Less(params.iq_cmd_lower_limit, Neg(params.phase_current_cmd_limit))
    /\ Less(params.phase_current_cmd_limit,
            IqRadius(VdqMax(call.voltage, params), Zero, params))
    /\ call.limits.upper_limit = TorqueOfIq(params.phase_current_cmd_limit, params)
    /\ call.limits.lower_limit = TorqueOfIq(Neg(params.phase_current_cmd_limit), params)
    /\ call.limits.upper_constraint = kSimMotorLimitPhaseCurrent
    /\ call.limits.lower_constraint = kSimMotorLimitPhaseCurrent

\* C6: with every other loss coefficient zero and rotor speed 0,
\* CalcMotorPower returns -1.5 * peak_phase_current_sq * Rs.
C6_ResistiveLossThreeHalves ==
    ( /\ Returned("CalcMotorPower")
      /\ call.rotor_vel = Zero
      /\ params.hysteresis_loss_coefficient = Zero
      /\ params.omega_loss_coefficient_cubic = Zero
      /\ params.omega_loss_coefficient_sq = Zero
      /\ params.omega_loss_coefficient_lin = Zero
      /\ params.rds_on = Zero
      /\ params.switching_frequency = Zero )
        => call.value =
               Mul(Mul(<<-3, 2>>,
                       PeakPhaseCurrentSq(ClampVoltage(call.voltage), call.torque,
                                          call.rotor_vel, params)),
                   params.Rs)

\* C7: with switching_frequency = 0, CalcMotorControllerLoss returns
\* -1.5 * peak_phase_current_sq * rds_on for every voltage and every
\* peak_phase_current_sq >= 0.
C7_ConductionLossThreeHalves ==
    (Returned("CalcMotorControllerLoss") /\ params.switching_frequency = Zero)
        => call.value = Mul(Mul(<<-3, 2>>, call.peak_phase_current_sq), params.rds_on)

\* C8, as stated: CalcMotorControllerLoss is non-increasing in
\* peak_phase_current_sq and in voltage, the other held fixed.
C8_LossMonotonic ==
    Returned("CalcMotorControllerLoss")
        => /\ \A p2 \in PeakPhaseCurrents :
                  (Leq(call.peak_phase_current_sq, p2) /\ ExactControllerLoss(p2, params))
                      => Leq(CalcMotorControllerLoss(call.voltage, p2, params), call.value)
           /\ \A v2 \in LossVoltages :
                  Leq(call.voltage, v2)
                      => Leq(CalcMotorControllerLoss(v2, call.peak_phase_current_sq, params),
                             call.value)

\* C8, amended: for voltages >= 0, CalcMotorControllerLoss is non-increasing
\* in peak_phase_current_sq and in voltage, the other held fixed.
C8_LossMonotonicFromZeroVoltage ==
    (Returned("CalcMotorControllerLoss") /\ Leq(Zero, call.voltage))
        => /\ \A p2 \in PeakPhaseCurrents :
                  (Leq(call.peak_phase_current_sq, p2) /\ ExactControllerLoss(p2, params))
                      => Leq(CalcMotorControllerLoss(call.voltage, p2, params), call.value)
           /\ \A v2 \in LossVoltages :
                  Leq(call.voltage, v2)
                      => Leq(CalcMotorControllerLoss(v2, call.peak_phase_current_sq, params),
                             call.value)

\* A loss at a voltage >= 0 that a higher voltage and a higher current each
\* make strictly more negative.
C8_Witness ==
    /\ Returned("CalcMotorControllerLoss")
    /\ Leq(Zero, call.voltage)
    /\ \E v2 \in LossVoltages :
           /\ Less(call.voltage, v2)
           /\ Less(CalcMotorControllerLoss(v2, call.peak_phase_current_sq, params),
                   call.value)
    /\ \E p2 \in PeakPhaseCurrents :
           /\ Less(call.peak_phase_current_sq, p2)
           /\ Less(CalcMotorControllerLoss(call.voltage, p2, params), call.value)

\* C9: at torque 0 and rotor speed 0, for non-salient parameters,
\* peak_phase_current_sq is 0 and CalcMotorPower returns
\* -3 * switching_frequency * (fixed_loss_sq_coeff * v + fixed_loss_lin_coeff) * v
\* with v = max(voltage, 0).
C9_ZeroTorqueZeroSpeedPower ==
    ( /\ Returned("CalcMotorPower")
      /\ call.torque = Zero
      /\ call.rotor_vel = Zero
      /\ NonSalient(params) )
        => LET v == Fmax(call.voltage, Zero)
           IN  /\ PeakPhaseCurrentSq(v, call.torque, call.rotor_vel, params) = Zero
               /\ call.value =
                      Mul(Mul(Mul(Num(-3), params.switching_frequency),
                              Add(Mul(params.fixed_loss_sq_coeff, v),
                                  params.fixed_loss_lin_coeff)),
                          v)

\* A power at torque 0 and rotor speed 0 with a voltage circle of positive
\* radius and a fixed switching loss.
C9_Witness ==
    /\ Returned("CalcMotorPower")
    /\ call.torque = Zero
    /\ call.rotor_vel = Zero
    /\ NonSalient(params)
    /\ Less(Zero, IqRadius(VdqMax(call.voltage, params), Zero, params))
    /\ Less(call.value, Zero)

\* C10: the returned limits lie within the hard quadrature current command
\* band, 1.5 * npp * lambda * iq_cmd_lower_limit <= lower_limit and
\* upper_limit <= 1.5 * npp * lambda * iq_cmd_upper_limit, and a bound whose
\* constraint is kSimMotorLimitPower is 1.5 * npp * lambda *
\* (iq_center -/+ iq_radius).
C10_WithinCommandBand ==
    Returned("CalcTorqueLimits")
        => LET omega_e == OmegaE(call.rotor_vel, params)
               iq_center == IqCenter(omega_e, params)
               iq_radius == IqRadius(VdqMax(Fmax(call.voltage, Zero), params), omega_e,
                                     params)
           IN  /\ Leq(TorqueOfIq(params.iq_cmd_lower_limit, params),
                      call.limits.lower_limit)
               /\ Leq(call.limits.upper_limit,
                      TorqueOfIq(params.iq_cmd_upper_limit, params))
               /\ call.limits.lower_constraint = kSimMotorLimitPower
                      => call.limits.lower_limit =
                             TorqueOfIq(Sub(iq_center, iq_radius), params)
               /\ call.limits.upper_constraint = kSimMotorLimitPower
                      => call.limits.upper_limit =
                             TorqueOfIq(Add(iq_center, iq_radius), params)

\* The power limit has raised the lower bound and the phase current limit
\* has lowered the upper bound, both inside the command band.
C10_Witness ==
    /\ Returned("CalcTorqueLimits")
    /\ call.limits.lower_constraint = kSimMotorLimitPower
    /\ call.limits.upper_constraint = kSimMotorLimitPhaseCurrent
    /\ Less(TorqueOfIq(params.iq_cmd_lower_limit, params), call.limits.lower_limit)
    /\ Less(call.limits.upper_limit, TorqueOfIq(params.iq_cmd_upper_limit, params))

====
